---- MODULE Spec2Model ----
(***************************************************************************)
(* State-machine model of src/DataTable.tsx: the editable grid derived     *)
(* from a chart dataset, its undo/redo history of cell-change batches, the  *)
(* structural operations (resize, reorder, delete) and the sync back to    *)
(* the dataset through onDataChange.                                        *)
(*                                                                         *)
(* One action models one event handler, run to completion against the      *)
(* state of the render that created it (handlers close over gridColumns,   *)
(* gridRows, cellChanges, ... of that render; the queued setState calls    *)
(* take effect together afterwards).  JavaScript indexes are kept 0-based  *)
(* in the model (findIndex returns -1 .. length-1).  A cell text is a      *)
(* sequence of one-character strings so that parseFloat and toString are   *)
(* computed, not assumed.                                                  *)
(***************************************************************************)
EXTENDS Integers, Sequences, FiniteSets, TLC

VARIABLES
    tableData,         \* prop: { columns, rows } the grid is projected from
    isTransposed,      \* prop: orientation flag
    originalData,      \* prop: ReshapedChartData | null
    gridColumns,       \* useState<Column[]>
    gridRows,          \* useState<Row[]>
    cellChangesIndex,  \* useState(-1): the history cursor
    cellChanges,       \* useState<CellChange[][]>: the batches
    selectedRows,      \* useState<string[]>
    selectedColumns,   \* useState<string[]>
    emitted,           \* the datasets handed to onDataChange by the last handler, in order
    lastOp,            \* observation: which handler ran last and what it did
    snaps,             \* observation: per recorded batch, the grid before and after it
    budget,            \* events the environment may still deliver, per kind
    rArray, rFrom, rFrom0, rTo, rResult   \* direct calls of reorderArray

vars == <<tableData, isTransposed, originalData, gridColumns, gridRows,
          cellChangesIndex, cellChanges, selectedRows, selectedColumns,
          emitted, lastOp, snaps, budget,
          rArray, rFrom, rFrom0, rTo, rResult>>

gridVars == <<tableData, isTransposed, originalData, gridColumns, gridRows,
              cellChangesIndex, cellChanges, selectedRows, selectedColumns,
              emitted, lastOp, snaps, budget>>

callVars == <<rArray, rFrom, rFrom0, rTo, rResult>>

----------------------------------------------------------------------------
(* Bounds *)

MaxEdits == 2        \* cell-edit events in one behaviour
MaxOthers == 3       \* selection and delete events in one behaviour
MaxBatches == 2      \* recorded batches kept in the history
MaxBatchSize == 2    \* cell changes in one batch
MaxMoving == 2       \* ids moved by one reorder event
MaxArrayLen == 4     \* length of the array in a direct reorderArray call
MaxFrom == 3         \* indexes passed to a direct reorderArray call
MaxCalls == 2        \* direct calls with the same argument objects
MaxStale == 2        \* reorder events that may carry an id the grid does not hold
MaxRecords == 2      \* records of a dataset projected and synced out unedited

----------------------------------------------------------------------------
(* JavaScript values and array primitives *)

Undefined == [undefined |-> TRUE]
Null == [kind |-> "null"]
Num(n) == [kind |-> "number", n |-> n]
Str(t) == [kind |-> "string", text |-> t]

Min(a, b) == IF a < b THEN a ELSE b
Max(a, b) == IF a > b THEN a ELSE b

\* array[i] for a 0-based i; out of range reads undefined
At(array, i) == IF i >= 0 /\ i < Len(array) THEN array[i + 1] ELSE Undefined

\* the start argument of Array.prototype.splice, clamped as the language defines
SpliceStart(array, start) ==
    IF start < 0 THEN Max(Len(array) + start, 0) ELSE Min(start, Len(array))

\* array.splice(start, 1)
SpliceRemove(array, start) ==
    LET s == SpliceStart(array, start)
    IN  IF s < Len(array)
        THEN SubSeq(array, 1, s) \o SubSeq(array, s + 2, Len(array))
        ELSE array

\* array.splice(start, 0, ...items)
SpliceInsert(array, start, items) ==
    LET s == SpliceStart(array, start)
    IN  SubSeq(array, 1, s) \o items \o SubSeq(array, s + 1, Len(array))

\* variant: the comparator is a - b, the indexes are sorted ascending
RECURSIVE SortAsc(_)
SortAsc(s) ==
    IF s = <<>> THEN <<>>
    ELSE LET m == CHOOSE i \in 1..Len(s) :
                    /\ \A j \in 1..Len(s) : s[j] >= s[i]
                    /\ \A j \in 1..(i - 1) : s[j] > s[i]
         IN  <<s[m]>> \o SortAsc(SubSeq(s, 1, m - 1) \o SubSeq(s, m + 1, Len(s)))

\* fromIndexes.sort((a, b) => b - a): the array after the in-place sort
RECURSIVE SortDesc(_)
SortDesc(s) ==
    IF s = <<>> THEN <<>>
    ELSE LET m == CHOOSE i \in 1..Len(s) :
                    /\ \A j \in 1..Len(s) : s[j] <= s[i]
                    /\ \A j \in 1..(i - 1) : s[j] < s[i]
         IN  <<s[m]>> \o SortDesc(SubSeq(s, 1, m - 1) \o SubSeq(s, m + 1, Len(s)))

\* .forEach((index) => result.splice(index, 1))
RECURSIVE RemoveEach(_, _)
RemoveEach(result, indexes) ==
    IF indexes = <<>> THEN result
    ELSE RemoveEach(SpliceRemove(result, Head(indexes)), Tail(indexes))

\* variant: the source positions are removed in the order given, unsorted
reorderArrayUnsorted(array, fromIndexes, toIndex) ==
    LET itemsToMove == [k \in 1..Len(fromIndexes) |-> At(array, fromIndexes[k])]
        result == RemoveEach(array, fromIndexes)
    IN  SpliceInsert(result, toIndex, itemsToMove)

reorderArray(array, fromIndexes, toIndex) ==
    LET itemsToMove == [k \in 1..Len(fromIndexes) |-> At(array, fromIndexes[k])]
        result == RemoveEach(array, SortDesc(fromIndexes))
    IN  SpliceInsert(result, toIndex, itemsToMove)

----------------------------------------------------------------------------
(* Texts, numbers and the two conversions between them *)

Digits == <<"0", "1", "2", "3", "4", "5", "6", "7", "8", "9">>

IsDigit(c) == \E d \in 1..10 : Digits[d] = c
DigitVal(c) == (CHOOSE d \in 1..10 : Digits[d] = c) - 1

\* Number.prototype.toString for a non-negative integer
RECURSIVE toString(_)
toString(n) ==
    IF n < 10 THEN <<Digits[n + 1]>>
    ELSE toString(n \div 10) \o <<Digits[(n % 10) + 1]>>

RECURSIVE DigitsValue(_)
DigitsValue(t) ==
    IF t = <<>> THEN 0
    ELSE 10 * DigitsValue(SubSeq(t, 1, Len(t) - 1)) + DigitVal(t[Len(t)])

\* parseFloat over texts of digits and letters: the longest prefix of digits
\* is the number, and no such prefix is NaN
parseFloat(t) ==
    LET k == CHOOSE n \in 0..Len(t) :
                /\ \A i \in 1..n : IsDigit(t[i])
                /\ (n < Len(t) => ~IsDigit(t[n + 1]))
    IN  IF k = 0 THEN [nan |-> TRUE, n |-> 0]
        ELSE [nan |-> FALSE, n |-> DigitsValue(SubSeq(t, 1, k))]

isNaN(v) == v.nan

\* row[col.field]?.toString() || ''
ValueText(v) ==
    IF v.kind = "number" THEN toString(v.n)
    ELSE IF v.kind = "string" THEN v.text
    ELSE <<>>

\* the text of a field name (field names are single characters here)
FieldText(f) == <<f>>

----------------------------------------------------------------------------
(* The table the host passes in, and its projection to the grid *)

DefaultWidth == 150

RowName(idx) == <<"row-0", "row-1", "row-2">>[idx + 1]

TableXYZ ==
    [columns |-> <<[field |-> "x", headerName |-> <<>>],
                   [field |-> "y", headerName |-> <<"Y">>],
                   [field |-> "z", headerName |-> <<>>]>>,
     rows |-> <<[hasId |-> FALSE, id |-> "",
                 vals |-> [x |-> Num(1), y |-> Num(2), z |-> Num(3)]]>>]

TableXY ==
    [columns |-> <<[field |-> "x", headerName |-> <<>>],
                   [field |-> "y", headerName |-> <<>>]>>,
     rows |-> <<[hasId |-> FALSE, id |-> "",
                 vals |-> [x |-> Num(1), y |-> Num(2)]],
                [hasId |-> FALSE, id |-> "",
                 vals |-> [x |-> Str(<<"a">>), y |-> Null]]>>]

Tables == {TableXYZ, TableXY}

Dataset == [meta |-> "chart-meta", chart |-> <<>>]

convertDataForReactGrid(td) ==
    IF Len(td.columns) = 0
    THEN [reactGridColumns |-> <<>>, reactGridRows |-> <<>>]
    ELSE LET reactGridColumns ==
                 [c \in 1..Len(td.columns) |->
                     [columnId |-> td.columns[c].field,
                      reorderable |-> TRUE,
                      width |-> DefaultWidth,
                      resizable |-> TRUE]]
             headerRow ==
                 [rowId |-> "header",
                  cells |-> [c \in 1..Len(td.columns) |->
                     [type |-> "header",
                      text |-> IF td.columns[c].headerName # <<>>
                               THEN td.columns[c].headerName
                               ELSE FieldText(td.columns[c].field)]]]
             dataRows ==
                 [r \in 1..Len(td.rows) |->
                     [rowId |-> IF td.rows[r].hasId THEN td.rows[r].id
                                ELSE RowName(r - 1),
                      reorderable |-> TRUE,
                      cells |-> [c \in 1..Len(td.columns) |->
                         [type |-> "text",
                          text |-> ValueText(td.rows[r].vals[td.columns[c].field])]]]]
         IN  [reactGridColumns |-> reactGridColumns,
              reactGridRows |-> <<headerRow>> \o dataRows]

----------------------------------------------------------------------------
(* Lookups by id *)

\* columns.findIndex((c) => c.columnId === id)
ColumnIndex(columns, id) ==
    IF \E i \in 1..Len(columns) : columns[i].columnId = id
    THEN (CHOOSE i \in 1..Len(columns) :
             /\ columns[i].columnId = id
             /\ \A j \in 1..(i - 1) : columns[j].columnId # id) - 1
    ELSE -1

\* rows.findIndex((row) => row.rowId === id)
RowIndex(rows, id) ==
    IF \E i \in 1..Len(rows) : rows[i].rowId = id
    THEN (CHOOSE i \in 1..Len(rows) :
             /\ rows[i].rowId = id
             /\ \A j \in 1..(i - 1) : rows[j].rowId # id) - 1
    ELSE -1

\* ids.includes(id)
Includes(ids, id) == \E i \in 1..Len(ids) : ids[i] = id

\* array.filter(keep), keep given as the set of kept (1-based) positions
RECURSIVE FilterAt(_, _, _)
FilterAt(array, keep, i) ==
    IF i > Len(array) THEN <<>>
    ELSE (IF i \in keep THEN <<array[i]>> ELSE <<>>) \o FilterAt(array, keep, i + 1)

\* { ...a, ...b }
Merge(a, b) ==
    [k \in (DOMAIN a) \cup (DOMAIN b) |-> IF k \in DOMAIN b THEN b[k] ELSE a[k]]

----------------------------------------------------------------------------
(* Replay of a batch on the rows; columns are the gridColumns of the render *)

\* a change of a batch that replay skips: its row or its column is gone
Unresolved(change, rows, columns) ==
    RowIndex(rows, change.rowId) = -1 \/ ColumnIndex(columns, change.columnId) = -1

applyChange(change, rows, columns) ==
    LET rowIndex == RowIndex(rows, change.rowId)
        cellIndex == ColumnIndex(columns, change.columnId)
    IN  IF rowIndex = -1 THEN rows
        ELSE IF cellIndex = -1 THEN rows
        ELSE [rows EXCEPT ![rowIndex + 1].cells[cellIndex + 1] =
                             Merge(@, change.newCell)]

RECURSIVE applyChangesToRows(_, _, _)
applyChangesToRows(changes, rows, columns) ==
    IF changes = <<>> THEN rows
    ELSE applyChangesToRows(Tail(changes),
                            applyChange(Head(changes), rows, columns), columns)

\* variant: undo writes the new text of the change back instead of the previous one
undoChangeNewText(change, rows, columns) ==
    LET rowIndex == RowIndex(rows, change.rowId)
        cellIndex == ColumnIndex(columns, change.columnId)
    IN  IF rowIndex = -1 THEN rows
        ELSE IF cellIndex = -1 THEN rows
        ELSE [rows EXCEPT ![rowIndex + 1].cells[cellIndex + 1] =
                             Merge(@, [text |-> change.newCell.text])]

undoChange(change, rows, columns) ==
    LET rowIndex == RowIndex(rows, change.rowId)
        cellIndex == ColumnIndex(columns, change.columnId)
    IN  IF rowIndex = -1 THEN rows
        ELSE IF cellIndex = -1 THEN rows
        ELSE [rows EXCEPT ![rowIndex + 1].cells[cellIndex + 1] =
                             Merge(@, [text |-> change.previousCell.text])]

\* variant: the first unresolvable change ends the replay of the batch
RECURSIVE undoChangesAbort(_, _, _)
undoChangesAbort(changes, rows, columns) ==
    IF changes = <<>> THEN rows
    ELSE IF Unresolved(Head(changes), rows, columns) THEN rows
    ELSE undoChangesAbort(Tail(changes),
                          undoChange(Head(changes), rows, columns), columns)

\* variant: the column of a change is looked up in the columns as first
\* projected from tableData, not in the columns of the grid
RECURSIVE undoChangesInitialColumns(_, _, _)
undoChangesInitialColumns(changes, rows, columns) ==
    IF changes = <<>> THEN rows
    ELSE undoChangesInitialColumns(
             Tail(changes),
             undoChange(Head(changes), rows,
                        convertDataForReactGrid(tableData).reactGridColumns),
             columns)

RECURSIVE undoChanges(_, _, _)
undoChanges(changes, rows, columns) ==
    IF changes = <<>> THEN rows
    ELSE undoChanges(Tail(changes),
                     undoChange(Head(changes), rows, columns), columns)

----------------------------------------------------------------------------
(* Sync out: the dataset rebuilt from the rows *)

\* isNaN(numericValue) ? text : numericValue
Coerce(text) ==
    LET numericValue == parseFloat(text)
    IN  IF isNaN(numericValue) THEN Str(text) ELSE Num(numericValue.n)

\* one record: dataPoint[columns[cellIdx].columnId] = coerced cell, in cell order
dataPoint(row, columns) ==
    [f \in {columns[i].columnId : i \in 1..Len(row.cells)} |->
        LET last == CHOOSE i \in 1..Len(row.cells) :
                       /\ columns[i].columnId = f
                       /\ \A j \in (i + 1)..Len(row.cells) : columns[j].columnId # f
        IN  Coerce(row.cells[last].text)]

\* variant: the header row is not filtered out before the records are built
updateDataFromRowsWithHeader(rows, columns, original) ==
    IF original = Null
    THEN [fired |-> FALSE, threw |-> FALSE, data |-> Null]
    ELSE IF \E r \in 1..Len(rows) : Len(rows[r].cells) > Len(columns)
    THEN [fired |-> FALSE, threw |-> TRUE, data |-> Null]
    ELSE [fired |-> TRUE, threw |-> FALSE,
          data |-> [original EXCEPT !.chart =
                      [r \in 1..Len(rows) |-> dataPoint(rows[r], columns)]]]

\* The outcome of updateDataFromRows(rows) in a render with these columns and
\* this originalData: nothing when there is no dataset, a TypeError when a
\* cell has no column at its index (columns[cellIdx] is undefined), else one
\* onDataChange call.
updateDataFromRows(rows, columns, original) ==
    LET dataRows == FilterAt(rows, {i \in 1..Len(rows) : rows[i].rowId # "header"}, 1)
    IN  IF original = Null
        THEN [fired |-> FALSE, threw |-> FALSE, data |-> Null]
        ELSE IF \E r \in 1..Len(dataRows) : Len(dataRows[r].cells) > Len(columns)
        THEN [fired |-> FALSE, threw |-> TRUE, data |-> Null]
        ELSE [fired |-> TRUE, threw |-> FALSE,
              data |-> [original EXCEPT !.chart =
                          [r \in 1..Len(dataRows) |-> dataPoint(dataRows[r], columns)]]]

----------------------------------------------------------------------------
(* What the widget and the host can deliver *)

EditTexts == {<<"5">>, <<"b">>}
ResizeWidth == 200

\* the component renders the grid (and its key handler and buttons) only
\* when there is at least one column and one row
Rendered == Len(gridColumns) > 0 /\ Len(gridRows) > 0

EditBudget == budget.edits > 0
OtherBudget == budget.others > 0
SpendEdit == budget' = [budget EXCEPT !.edits = @ - 1]
SpendOther == budget' = [budget EXCEPT !.others = @ - 1]

ColumnIdsNow == {gridColumns[i].columnId : i \in 1..Len(gridColumns)}
RowIdsNow == {gridRows[i].rowId : i \in 1..Len(gridRows)}
ReorderableRowIds == {gridRows[i].rowId : i \in {j \in 1..Len(gridRows) :
                                                   "reorderable" \in DOMAIN gridRows[j]}}

\* the sequences of 1..n distinct elements of S
DistinctSeqs(S, n) ==
    {s \in UNION {[1..k -> S] : k \in 1..n} :
        \A i, j \in 1..Len(s) : i # j => s[i] # s[j]}

\* the selection the widget reports for a set of grid positions: their ids in grid order
IdsAt(array, positions, field) ==
    LET kept == FilterAt(array, positions, 1)
    IN  [k \in 1..Len(kept) |-> kept[k][field]]

\* the editable cells the widget shows: text cells under an existing column
EditableCells ==
    {rc \in (1..Len(gridRows)) \X (1..Len(gridColumns)) :
        /\ rc[2] <= Len(gridRows[rc[1]].cells)
        /\ gridRows[rc[1]].cells[rc[2]].type = "text"}

\* the change the widget reports for typing text t into the cell at rc
ChangeOf(rc, t) ==
    [type |-> "text",
     rowId |-> gridRows[rc[1]].rowId,
     columnId |-> gridColumns[rc[2]].columnId,
     previousCell |-> gridRows[rc[1]].cells[rc[2]],
     newCell |-> [gridRows[rc[1]].cells[rc[2]] EXCEPT !.text = t]]

\* the cells of one batch: a run of up to MaxBatchSize neighbouring cells
\* of one row or of one column (a paste or a fill), in grid order
CellRuns ==
    {run \in {[i \in 1..k |-> <<rc[1], rc[2] + i - 1>>] :
                 rc \in EditableCells, k \in 1..MaxBatchSize}
             \cup {[i \in 1..k |-> <<rc[1] + i - 1, rc[2]>>] :
                 rc \in EditableCells, k \in 1..MaxBatchSize} :
        \A i \in 1..Len(run) : run[i] \in EditableCells}

\* the batches the widget can report: one new text for the cells of a run,
\* each change a real change of the cell's text
Batches ==
    {b \in {[i \in 1..Len(run) |-> ChangeOf(run[i], t)] : run \in CellRuns, t \in EditTexts} :
        \A i \in 1..Len(b) : b[i].newCell.text # b[i].previousCell.text}

Op(name, effective, threw) ==
    [name |-> name, effective |-> effective, threw |-> threw,
     skipped |-> 0, applied |-> 0]

\* a structural operation ends every run of edits recorded before it
Unclean(ss) == [i \in 1..Len(ss) |-> [ss[i] EXCEPT !.clean = FALSE]]

SkippedIn(changes, rows, columns) ==
    Cardinality({i \in 1..Len(changes) : Unresolved(changes[i], rows, columns)})

----------------------------------------------------------------------------
(* Initial state: the first render *)

InitGrid ==
    /\ tableData \in Tables
    /\ isTransposed = FALSE
    /\ originalData \in {Dataset, Null}
    /\ gridColumns = convertDataForReactGrid(tableData).reactGridColumns
    /\ gridRows = convertDataForReactGrid(tableData).reactGridRows
    /\ cellChangesIndex = -1
    /\ cellChanges = <<>>
    /\ selectedRows = <<>>
    /\ selectedColumns = <<>>
    /\ emitted = <<>>
    /\ lastOp = Op("init", FALSE, FALSE)
    /\ snaps = <<>>

NoCall ==
    /\ rArray = <<>>
    /\ rFrom = <<>>
    /\ rFrom0 = <<>>
    /\ rTo = 0
    /\ rResult = <<>>

Init == InitGrid /\ NoCall /\ budget = [edits |-> 1, others |-> 2]

----------------------------------------------------------------------------
(* The handlers *)

\* useEffect(..., [isTransposed]): the host toggles the flag and passes the
\* table of the new orientation; only the columns and the rows are reset
Transpose ==
    /\ OtherBudget
    /\ \E td \in Tables :
        /\ tableData' = td
        /\ gridColumns' = convertDataForReactGrid(td).reactGridColumns
        /\ gridRows' = convertDataForReactGrid(td).reactGridRows
    /\ isTransposed' = ~isTransposed
    /\ emitted' = <<>>
    /\ lastOp' = Op("transpose", TRUE, FALSE)
    /\ snaps' = Unclean(snaps)
    /\ SpendOther
    /\ UNCHANGED <<originalData, cellChangesIndex, cellChanges,
                   selectedRows, selectedColumns>>
    /\ UNCHANGED callVars

handleColumnResize ==
    /\ OtherBudget /\ Rendered
    /\ \E columnId \in ColumnIdsNow :
        LET columnIndex == ColumnIndex(gridColumns, columnId)
        IN  gridColumns' = IF columnIndex = -1 THEN gridColumns
                           ELSE [gridColumns EXCEPT ![columnIndex + 1].width = ResizeWidth]
    /\ emitted' = <<>>
    /\ lastOp' = Op("columnResize", TRUE, FALSE)
    /\ SpendOther
    /\ UNCHANGED <<tableData, isTransposed, originalData, gridRows, cellChangesIndex,
                   cellChanges, selectedRows, selectedColumns, snaps>>
    /\ UNCHANGED callVars

\* The rows updater of handleColumnsReorder computes columnIdxs once and
\* hands the same array to reorderArray for every row; reorderArray sorts
\* it in place, so every row after the first sees it sorted descending.
ReorderCells(prevRows, columnIdxs, toIndex) ==
    [r \in 1..Len(prevRows) |->
        [prevRows[r] EXCEPT !.cells =
            reorderArray(@, IF r = 1 THEN columnIdxs ELSE SortDesc(columnIdxs), toIndex)]]

handleColumnsReorder ==
    /\ OtherBudget /\ Rendered
    /\ \E targetColumnId \in ColumnIdsNow, columnIds \in DistinctSeqs(ColumnIdsNow, MaxMoving) :
        LET toIndex == ColumnIndex(gridColumns, targetColumnId)
            columnIdxs == [k \in 1..Len(columnIds) |-> ColumnIndex(gridColumns, columnIds[k])]
        IN  /\ gridColumns' = reorderArray(gridColumns, columnIdxs, toIndex)
            /\ gridRows' = ReorderCells(gridRows, columnIdxs, toIndex)
    /\ emitted' = <<>>
    /\ lastOp' = Op("columnsReorder", TRUE, FALSE)
    /\ snaps' = Unclean(snaps)
    /\ SpendOther
    /\ UNCHANGED <<tableData, isTransposed, originalData, cellChangesIndex,
                   cellChanges, selectedRows, selectedColumns>>
    /\ UNCHANGED callVars

\* variant: the indexes found among the data rows are applied to all the
\* rows, header included
ReorderRowsWholeGrid(prevRows, targetRowId, rowIds) ==
    LET dataRows == Tail(prevRows)
        toIndex == RowIndex(dataRows, targetRowId)
        fromIndexes == [k \in 1..Len(rowIds) |-> RowIndex(dataRows, rowIds[k])]
    IN  IF toIndex = -1 THEN prevRows
        ELSE reorderArray(prevRows, fromIndexes, toIndex)

ReorderRows(prevRows, targetRowId, rowIds) ==
    LET header == prevRows[1]
        dataRows == Tail(prevRows)
        toIndex == RowIndex(dataRows, targetRowId)
        fromIndexes == [k \in 1..Len(rowIds) |-> RowIndex(dataRows, rowIds[k])]
    IN  IF toIndex = -1 THEN prevRows
        ELSE <<header>> \o reorderArray(dataRows, fromIndexes, toIndex)

\* the widget moves reorderable rows; the rows it reports are below the first row
handleRowsReorder ==
    /\ OtherBudget /\ Rendered
    /\ \E targetRowId \in RowIdsNow,
          rowIds \in DistinctSeqs(ReorderableRowIds \cap {gridRows[i].rowId : i \in 2..Len(gridRows)},
                                  MaxMoving) :
        gridRows' = ReorderRows(gridRows, targetRowId, rowIds)
    /\ emitted' = <<>>
    /\ lastOp' = Op("rowsReorder", TRUE, FALSE)
    /\ snaps' = Unclean(snaps)
    /\ SpendOther
    /\ UNCHANGED <<tableData, isTransposed, originalData, gridColumns, cellChangesIndex,
                   cellChanges, selectedRows, selectedColumns>>
    /\ UNCHANGED callVars

\* variant: the new batch is pushed without dropping the batches after the cursor
RecordBatchNoTruncate(batches, index, changes) ==
    Append(batches, changes)

\* cellChanges.slice(0, cellChangesIndex + 1) followed by push(changes)
RecordBatch(batches, index, changes) ==
    Append(SubSeq(batches, 1, index + 1), changes)

handleCellsChanged ==
    /\ EditBudget /\ Rendered
    /\ \E changes \in Batches :
        IF originalData = Null
        THEN /\ lastOp' = Op("cellsChanged", FALSE, FALSE)
             /\ emitted' = <<>>
             /\ UNCHANGED <<gridRows, cellChanges, cellChangesIndex, snaps>>
        ELSE LET updatedRows == applyChangesToRows(changes, gridRows, gridColumns)
                 newCellChanges == RecordBatch(cellChanges, cellChangesIndex, changes)
                 out == updateDataFromRows(updatedRows, gridColumns, originalData)
             IN  /\ Len(newCellChanges) <= MaxBatches
                 /\ gridRows' = updatedRows
                 /\ cellChanges' = newCellChanges
                 /\ cellChangesIndex' = Len(newCellChanges) - 1
                 /\ emitted' = IF out.fired THEN <<out.data>> ELSE <<>>
                 /\ lastOp' = Op("cellsChanged", TRUE, out.threw)
                 /\ snaps' = Append(SubSeq(snaps, 1, cellChangesIndex + 1),
                                    [pre |-> gridRows, post |-> updatedRows, clean |-> TRUE,
                                     columns |-> gridColumns])
    /\ SpendEdit
    /\ UNCHANGED <<tableData, isTransposed, originalData, gridColumns,
                   selectedRows, selectedColumns>>
    /\ UNCHANGED callVars

\* variant: only the replay is guarded; the cursor is moved and the rows are
\* synced out even when there is no batch to undo
handleUndoChangesUnguarded ==
    /\ Rendered
    /\ cellChangesIndex >= -1
    /\ LET batch == IF cellChangesIndex >= 0 THEN cellChanges[cellChangesIndex + 1] ELSE <<>>
           updatedRows == undoChanges(batch, gridRows, gridColumns)
           out == updateDataFromRows(updatedRows, gridColumns, originalData)
           skipped == SkippedIn(batch, gridRows, gridColumns)
       IN  /\ gridRows' = updatedRows
           /\ cellChangesIndex' = cellChangesIndex - 1
           /\ emitted' = IF out.fired THEN <<out.data>> ELSE <<>>
           /\ lastOp' = [Op("undo", cellChangesIndex >= 0, out.threw) EXCEPT
                            !.skipped = skipped, !.applied = Len(batch) - skipped]
    /\ UNCHANGED budget
    /\ UNCHANGED <<tableData, isTransposed, originalData, gridColumns, cellChanges,
                   selectedRows, selectedColumns, snaps>>
    /\ UNCHANGED callVars

handleUndoChanges ==
    /\ Rendered
    /\ IF cellChangesIndex >= 0
       THEN LET batch == cellChanges[cellChangesIndex + 1]
                updatedRows == undoChanges(batch, gridRows, gridColumns)
                out == updateDataFromRows(updatedRows, gridColumns, originalData)
                skipped == SkippedIn(batch, gridRows, gridColumns)
            IN  /\ gridRows' = updatedRows
                /\ cellChangesIndex' = cellChangesIndex - 1
                /\ emitted' = IF out.fired THEN <<out.data>> ELSE <<>>
                /\ lastOp' = [Op("undo", TRUE, out.threw) EXCEPT
                                 !.skipped = skipped, !.applied = Len(batch) - skipped]
       ELSE /\ lastOp' = Op("undo", FALSE, FALSE)
            /\ emitted' = <<>>
            /\ UNCHANGED <<gridRows, cellChangesIndex>>
    /\ UNCHANGED budget
    /\ UNCHANGED <<tableData, isTransposed, originalData, gridColumns, cellChanges,
                   selectedRows, selectedColumns, snaps>>
    /\ UNCHANGED callVars

\* variant: the guard compares with the length, not with the last index; a
\* batch that is not there replays nothing
handleRedoChangesOffByOne ==
    /\ Rendered
    /\ IF cellChangesIndex + 1 <= Len(cellChanges)
       THEN LET batch == IF cellChangesIndex + 1 <= Len(cellChanges) - 1
                         THEN cellChanges[cellChangesIndex + 2] ELSE <<>>
                updatedRows == applyChangesToRows(batch, gridRows, gridColumns)
                out == updateDataFromRows(updatedRows, gridColumns, originalData)
                skipped == SkippedIn(batch, gridRows, gridColumns)
            IN  /\ gridRows' = updatedRows
                /\ cellChangesIndex' = cellChangesIndex + 1
                /\ emitted' = IF out.fired THEN <<out.data>> ELSE <<>>
                /\ lastOp' = [Op("redo", TRUE, out.threw) EXCEPT
                                 !.skipped = skipped, !.applied = Len(batch) - skipped]
       ELSE /\ lastOp' = Op("redo", FALSE, FALSE)
            /\ emitted' = <<>>
            /\ UNCHANGED <<gridRows, cellChangesIndex>>
    /\ UNCHANGED budget
    /\ UNCHANGED <<tableData, isTransposed, originalData, gridColumns, cellChanges,
                   selectedRows, selectedColumns, snaps>>
    /\ UNCHANGED callVars

handleRedoChanges ==
    /\ Rendered
    /\ IF cellChangesIndex + 1 <= Len(cellChanges) - 1
       THEN LET batch == cellChanges[cellChangesIndex + 2]
                updatedRows == applyChangesToRows(batch, gridRows, gridColumns)
                out == updateDataFromRows(updatedRows, gridColumns, originalData)
                skipped == SkippedIn(batch, gridRows, gridColumns)
            IN  /\ gridRows' = updatedRows
                /\ cellChangesIndex' = cellChangesIndex + 1
                /\ emitted' = IF out.fired THEN <<out.data>> ELSE <<>>
                /\ lastOp' = [Op("redo", TRUE, out.threw) EXCEPT
                                 !.skipped = skipped, !.applied = Len(batch) - skipped]
       ELSE /\ lastOp' = Op("redo", FALSE, FALSE)
            /\ emitted' = <<>>
            /\ UNCHANGED <<gridRows, cellChangesIndex>>
    /\ UNCHANGED budget
    /\ UNCHANGED <<tableData, isTransposed, originalData, gridColumns, cellChanges,
                   selectedRows, selectedColumns, snaps>>
    /\ UNCHANGED callVars

\* onRowSelectionChanged={setSelectedRows}
setSelectedRows ==
    /\ OtherBudget /\ Rendered
    /\ \E positions \in SUBSET (1..Len(gridRows)) :
        /\ selectedRows' = IdsAt(gridRows, positions, "rowId")
        /\ selectedRows' # selectedRows
    /\ emitted' = <<>>
    /\ lastOp' = Op("rowSelection", TRUE, FALSE)
    /\ SpendOther
    /\ UNCHANGED <<tableData, isTransposed, originalData, gridColumns, gridRows,
                   cellChangesIndex, cellChanges, selectedColumns, snaps>>
    /\ UNCHANGED callVars

\* onColumnSelectionChanged={setSelectedColumns}
setSelectedColumns ==
    /\ OtherBudget /\ Rendered
    /\ \E positions \in SUBSET (1..Len(gridColumns)) :
        /\ selectedColumns' = IdsAt(gridColumns, positions, "columnId")
        /\ selectedColumns' # selectedColumns
    /\ emitted' = <<>>
    /\ lastOp' = Op("columnSelection", TRUE, FALSE)
    /\ SpendOther
    /\ UNCHANGED <<tableData, isTransposed, originalData, gridColumns, gridRows,
                   cellChangesIndex, cellChanges, selectedRows, snaps>>
    /\ UNCHANGED callVars

\* gridColumns.filter(col => !selectedColumns.includes(col.columnId))
DeleteColumns(columns, selected) ==
    FilterAt(columns, {i \in 1..Len(columns) : ~Includes(selected, columns[i].columnId)}, 1)

\* row.cells.filter((_, cellIdx) => !selectedColumns.includes(gridColumns[cellIdx].columnId))
DeleteCells(rows, columns, selected) ==
    [r \in 1..Len(rows) |->
        [rows[r] EXCEPT !.cells =
            FilterAt(@, {i \in 1..Len(@) : ~Includes(selected, columns[i].columnId)}, 1)]]

\* gridRows.filter(row => !selectedRows.includes(row.rowId))
DeleteRows(rows, selected) ==
    FilterAt(rows, {i \in 1..Len(rows) : ~Includes(selected, rows[i].rowId)}, 1)

\* variant: the row block runs whether or not rows are selected
handleDeleteRowsUnguarded ==
    /\ OtherBudget /\ Rendered
    /\ LET columnBlock == Len(selectedColumns) > 0
           rowBlock == TRUE
           filterThrows == /\ columnBlock
                           /\ \E r \in 1..Len(gridRows) :
                                 Len(gridRows[r].cells) > Len(gridColumns)
           rowsC == DeleteCells(gridRows, gridColumns, selectedColumns)
           outC == updateDataFromRows(rowsC, gridColumns, originalData)
           rowsR == DeleteRows(gridRows, selectedRows)
           outR == updateDataFromRows(rowsR, gridColumns, originalData)
           reachedRowBlock == rowBlock /\ ~(columnBlock /\ outC.threw)
       IN  IF filterThrows
           THEN /\ lastOp' = Op("delete", TRUE, TRUE)
                /\ emitted' = <<>>
                /\ UNCHANGED <<gridColumns, gridRows, selectedRows, selectedColumns, snaps>>
           ELSE /\ gridColumns' = IF columnBlock
                                  THEN DeleteColumns(gridColumns, selectedColumns)
                                  ELSE gridColumns
                /\ gridRows' = IF reachedRowBlock THEN rowsR
                               ELSE IF columnBlock THEN rowsC
                               ELSE gridRows
                /\ selectedColumns' = IF columnBlock THEN <<>> ELSE selectedColumns
                /\ selectedRows' = IF reachedRowBlock THEN <<>> ELSE selectedRows
                /\ emitted' = (IF columnBlock /\ outC.fired THEN <<outC.data>> ELSE <<>>)
                              \o (IF reachedRowBlock /\ outR.fired THEN <<outR.data>> ELSE <<>>)
                /\ lastOp' = Op("delete", columnBlock \/ rowBlock,
                                (columnBlock /\ outC.threw) \/ (reachedRowBlock /\ outR.threw))
                /\ snaps' = IF columnBlock \/ rowBlock THEN Unclean(snaps) ELSE snaps
    /\ SpendOther
    /\ UNCHANGED <<tableData, isTransposed, originalData, cellChangesIndex, cellChanges>>
    /\ UNCHANGED callVars

\* Both blocks read the gridRows and gridColumns of the render the handler
\* was created in; the second setGridRows replaces the first.  The cell
\* filter throws when a row has a cell past the last column, before any
\* state is set.
handleDelete ==
    /\ OtherBudget /\ Rendered
    /\ LET columnBlock == Len(selectedColumns) > 0
           rowBlock == Len(selectedRows) > 0
           filterThrows == /\ columnBlock
                           /\ \E r \in 1..Len(gridRows) :
                                 Len(gridRows[r].cells) > Len(gridColumns)
           rowsC == DeleteCells(gridRows, gridColumns, selectedColumns)
           outC == updateDataFromRows(rowsC, gridColumns, originalData)
           rowsR == DeleteRows(gridRows, selectedRows)
           outR == updateDataFromRows(rowsR, gridColumns, originalData)
           reachedRowBlock == rowBlock /\ ~(columnBlock /\ outC.threw)
       IN  IF filterThrows
           THEN /\ lastOp' = Op("delete", TRUE, TRUE)
                /\ emitted' = <<>>
                /\ UNCHANGED <<gridColumns, gridRows, selectedRows, selectedColumns, snaps>>
           ELSE /\ gridColumns' = IF columnBlock
                                  THEN DeleteColumns(gridColumns, selectedColumns)
                                  ELSE gridColumns
                /\ gridRows' = IF reachedRowBlock THEN rowsR
                               ELSE IF columnBlock THEN rowsC
                               ELSE gridRows
                /\ selectedColumns' = IF columnBlock THEN <<>> ELSE selectedColumns
                /\ selectedRows' = IF reachedRowBlock THEN <<>> ELSE selectedRows
                /\ emitted' = (IF columnBlock /\ outC.fired THEN <<outC.data>> ELSE <<>>)
                              \o (IF reachedRowBlock /\ outR.fired THEN <<outR.data>> ELSE <<>>)
                /\ lastOp' = Op("delete", columnBlock \/ rowBlock,
                                (columnBlock /\ outC.threw) \/ (reachedRowBlock /\ outR.threw))
                /\ snaps' = IF columnBlock \/ rowBlock THEN Unclean(snaps) ELSE snaps
    /\ SpendOther
    /\ UNCHANGED <<tableData, isTransposed, originalData, cellChangesIndex, cellChanges>>
    /\ UNCHANGED callVars

----------------------------------------------------------------------------
(* The component under the events of the widget, the keyboard and the host *)

Next ==
    \/ Transpose
    \/ handleColumnResize
    \/ handleColumnsReorder
    \/ handleRowsReorder
    \/ handleCellsChanged
    \/ handleUndoChanges
    \/ handleRedoChanges
    \/ setSelectedRows
    \/ setSelectedColumns
    \/ handleDelete

Spec == Init /\ [][Next]_vars

\* edits, undo and redo alone
InitHistory == InitGrid /\ NoCall /\ budget = [edits |-> MaxEdits, others |-> 0]

NextHistory ==
    \/ handleCellsChanged
    \/ handleUndoChanges
    \/ handleRedoChanges

SpecHistory == InitHistory /\ [][NextHistory]_vars

\* one edit around selections and deletes
InitDelete == InitGrid /\ NoCall /\ budget = [edits |-> 1, others |-> MaxOthers]

NextDelete ==
    \/ handleCellsChanged
    \/ handleUndoChanges
    \/ handleRedoChanges
    \/ setSelectedRows
    \/ setSelectedColumns
    \/ handleDelete

SpecDelete == InitDelete /\ [][NextDelete]_vars

\* one edit and two reorders of rows or columns, undo and redo
InitReplay == InitGrid /\ NoCall /\ budget = [edits |-> 1, others |-> 2]

NextReplay ==
    \/ handleCellsChanged
    \/ handleRowsReorder
    \/ handleColumnsReorder
    \/ handleUndoChanges
    \/ handleRedoChanges

SpecReplay == InitReplay /\ [][NextReplay]_vars


----------------------------------------------------------------------------
(* reorderArray called directly: the caller owns the array and the index    *)
(* array, and may call again with the same two objects                      *)

Items == {[item |-> "a"], [item |-> "b"], [item |-> "c"]}

Arrays == UNION {[1..n -> Items] : n \in 0..MaxArrayLen}

\* lists of distinct valid indexes of the array, in any order
IndexLists(array) ==
    {<<>>} \cup DistinctSeqs(0..(Len(array) - 1), MaxFrom)

InitCall ==
    /\ tableData = TableXYZ
    /\ isTransposed = FALSE
    /\ originalData = Dataset
    /\ gridColumns = convertDataForReactGrid(tableData).reactGridColumns
    /\ gridRows = convertDataForReactGrid(tableData).reactGridRows
    /\ cellChangesIndex = -1
    /\ cellChanges = <<>>
    /\ selectedRows = <<>>
    /\ selectedColumns = <<>>
    /\ emitted = <<>>
    /\ lastOp = Op("init", FALSE, FALSE)
    /\ snaps = <<>>
    /\ budget = [edits |-> 0, others |-> 0]
    /\ rArray \in Arrays
    /\ rFrom0 \in IndexLists(rArray)
    /\ rFrom = rFrom0
    /\ rTo \in 0..Len(rArray)
    /\ rResult = <<>>

\* result = reorderArray(array, fromIndexes, toIndex): the array is copied,
\* fromIndexes is sorted in place
CallReorder ==
    /\ Len(rResult) < MaxCalls
    /\ rResult' = Append(rResult, reorderArray(rArray, rFrom, rTo))
    /\ rFrom' = SortDesc(rFrom)
    /\ UNCHANGED <<rArray, rFrom0, rTo>>
    /\ UNCHANGED gridVars

NextCall == CallReorder

SpecCall == InitCall /\ [][NextCall]_vars

----------------------------------------------------------------------------
(* Reorder events whose ids need not be in the grid: findIndex gives -1 for *)
(* an id that is not there, and the handlers go on with it                  *)

StaleColumnId == "w"
StaleRowId == "row-9"

\* the grid can be rendered and its handlers run: no element is undefined
WellFormed ==
    /\ Rendered
    /\ \A i \in 1..Len(gridColumns) : gridColumns[i] # Undefined
    /\ \A r \in 1..Len(gridRows) :
          /\ gridRows[r] # Undefined
          /\ \A c \in 1..Len(gridRows[r].cells) : gridRows[r].cells[c] # Undefined

\* how many of the ids resolve to -1 in the array
UnresolvedIds(indexes) == Cardinality({k \in 1..Len(indexes) : indexes[k] = -1})

\* handleColumnsReorder with a target and moving ids that may be unknown
handleColumnsReorderStale ==
    /\ OtherBudget /\ WellFormed
    /\ \E targetColumnId \in ColumnIdsNow \cup {StaleColumnId},
          columnIds \in DistinctSeqs(ColumnIdsNow \cup {StaleColumnId}, MaxMoving) :
        LET toIndex == ColumnIndex(gridColumns, targetColumnId)
            columnIdxs == [k \in 1..Len(columnIds) |-> ColumnIndex(gridColumns, columnIds[k])]
        IN  /\ gridColumns' = reorderArray(gridColumns, columnIdxs, toIndex)
            /\ gridRows' = ReorderCells(gridRows, columnIdxs, toIndex)
            /\ lastOp' = [Op("columnsReorder", TRUE, FALSE) EXCEPT
                             !.skipped = UnresolvedIds(<<toIndex>> \o columnIdxs),
                             !.applied = Len(columnIds) - UnresolvedIds(columnIdxs)]
    /\ emitted' = <<>>
    /\ snaps' = Unclean(snaps)
    /\ SpendOther
    /\ UNCHANGED <<tableData, isTransposed, originalData, cellChangesIndex,
                   cellChanges, selectedRows, selectedColumns>>
    /\ UNCHANGED callVars

\* handleRowsReorder with a target and moving ids that may be unknown
handleRowsReorderStale ==
    /\ OtherBudget /\ WellFormed
    /\ \E targetRowId \in RowIdsNow \cup {StaleRowId},
          rowIds \in DistinctSeqs((ReorderableRowIds
                                     \cap {gridRows[i].rowId : i \in 2..Len(gridRows)})
                                  \cup {StaleRowId}, MaxMoving) :
        LET dataRows == Tail(gridRows)
            toIndex == RowIndex(dataRows, targetRowId)
            fromIndexes == [k \in 1..Len(rowIds) |-> RowIndex(dataRows, rowIds[k])]
        IN  /\ gridRows' = ReorderRows(gridRows, targetRowId, rowIds)
            /\ lastOp' = [Op("rowsReorder", TRUE, FALSE) EXCEPT
                             !.skipped = UnresolvedIds(<<toIndex>> \o fromIndexes),
                             !.applied = Len(rowIds) - UnresolvedIds(fromIndexes)]
    /\ emitted' = <<>>
    /\ snaps' = Unclean(snaps)
    /\ SpendOther
    /\ UNCHANGED <<tableData, isTransposed, originalData, gridColumns, cellChangesIndex,
                   cellChanges, selectedRows, selectedColumns>>
    /\ UNCHANGED callVars

InitStale == InitGrid /\ NoCall /\ budget = [edits |-> 0, others |-> MaxStale]

NextStale ==
    \/ handleColumnsReorderStale
    \/ handleRowsReorderStale

SpecStale == InitStale /\ [][NextStale]_vars

----------------------------------------------------------------------------
(* Projection followed by sync out, with no edit in between *)

\* the values a record holds: numbers, and texts that are empty, start
\* with a letter or start with a digit
Values == {Num(0), Num(1), Num(42), Str(<<>>), Str(<<"a">>), Str(<<"1", "a">>)}

SyncTables ==
    {[columns |-> <<[field |-> "x", headerName |-> <<>>],
                    [field |-> "y", headerName |-> <<>>]>>,
      rows |-> [r \in 1..n |-> [hasId |-> FALSE, id |-> "", vals |-> recs[r]]]] :
        n \in 1..MaxRecords, recs \in [1..MaxRecords -> [{"x", "y"} -> Values]]}

InitSync ==
    /\ tableData \in SyncTables
    /\ isTransposed = FALSE
    /\ originalData = Dataset
    /\ gridColumns = convertDataForReactGrid(tableData).reactGridColumns
    /\ gridRows = convertDataForReactGrid(tableData).reactGridRows
    /\ cellChangesIndex = -1
    /\ cellChanges = <<>>
    /\ selectedRows = <<>>
    /\ selectedColumns = <<>>
    /\ emitted = <<>>
    /\ lastOp = Op("init", FALSE, FALSE)
    /\ snaps = <<>>
    /\ budget = [edits |-> 0, others |-> 0]
    /\ NoCall

\* updateDataFromRows(gridRows) on the rows as projected
SyncOut ==
    /\ lastOp.name = "init"
    /\ LET out == updateDataFromRows(gridRows, gridColumns, originalData)
       IN  /\ emitted' = IF out.fired THEN <<out.data>> ELSE <<>>
           /\ lastOp' = Op("sync", TRUE, out.threw)
    /\ UNCHANGED <<tableData, isTransposed, originalData, gridColumns, gridRows,
                   cellChangesIndex, cellChanges, selectedRows, selectedColumns,
                   snaps, budget>>
    /\ UNCHANGED callVars

NextSync == SyncOut

SpecSync == InitSync /\ [][NextSync]_vars

----------------------------------------------------------------------------
(* Properties *)

\* every row has one cell per column
Aligned == \A r \in 1..Len(gridRows) : Len(gridRows[r].cells) = Len(gridColumns)

\* the header row is in the grid once, at position 0
HeaderOnceAtZero ==
    /\ Len(gridRows) > 0
    /\ gridRows[1].rowId = "header"
    /\ \A i \in 2..Len(gridRows) : gridRows[i].rowId # "header"

\* C1. Undo/redo inverse law: over a run of recorded batches with no
\* structural operation since the first of them, the grid with the batches
\* from i on undone equals, cell for cell, the grid before batch i, and the
\* grid with the batches up to i applied equals the grid after batch i; so n
\* undos after n edits give the grid before E1 and n redos after that give
\* the grid after En.
UndoRedoInverseLaw ==
    \A i \in 1..Len(snaps) :
        snaps[i].clean =>
            /\ (cellChangesIndex + 1 = i - 1 => gridRows = snaps[i].pre)
            /\ (cellChangesIndex + 1 = i => gridRows = snaps[i].post)

\* C1 witness: two batches recorded and both undone, back at the grid before the first
UndoRedoInverseLawWitness ==
    /\ lastOp.name = "undo" /\ lastOp.effective
    /\ Len(cellChanges) = 2 /\ cellChangesIndex = -1
    /\ \A i \in 1..2 : snaps[i].clean /\ snaps[i].post # snaps[i].pre
    /\ gridRows = snaps[1].pre
    /\ snaps[2].post # snaps[1].pre

\* C2. History truncation: an edit keeps the batches up to the cursor, drops
\* the ones after it, appends one batch and leaves the cursor on it; a redo
\* that follows an edit changes neither the grid nor the history nor the
\* cursor and emits nothing.
HistoryTruncation ==
    [][/\ (lastOp'.name = "cellsChanged" /\ lastOp'.effective) =>
             /\ Len(cellChanges') = cellChangesIndex + 2
             /\ SubSeq(cellChanges', 1, cellChangesIndex + 1)
                  = SubSeq(cellChanges, 1, cellChangesIndex + 1)
             /\ cellChangesIndex' = Len(cellChanges') - 1
       /\ (lastOp.name = "cellsChanged" /\ lastOp.effective /\ lastOp'.name = "redo") =>
             /\ UNCHANGED <<gridColumns, gridRows, cellChanges, cellChangesIndex>>
             /\ emitted' = <<>>]_vars

\* C2 witness: a redo refused after edit, undo, edit: two edits were made and one batch is left
HistoryTruncationWitness ==
    /\ lastOp.name = "redo" /\ ~lastOp.effective
    /\ budget.edits <= MaxEdits - 2
    /\ Len(cellChanges) = 1 /\ cellChangesIndex = 0
    /\ gridRows = snaps[1].post

\* C3 as claimed. Alignment under column reorder: from an aligned grid, a
\* column reorder leaves every row with one cell per column, the cell at
\* index i being the cell that was under columns[i] before the reorder.
ColumnsReorderKeepsAlignment ==
    [][(lastOp'.name = "columnsReorder" /\ Aligned) =>
          \A r \in 1..Len(gridRows') :
              /\ Len(gridRows'[r].cells) = Len(gridColumns')
              /\ \A i \in 1..Len(gridColumns') :
                    gridRows'[r].cells[i]
                      = gridRows[r].cells[ColumnIndex(gridColumns, gridColumns'[i].columnId) + 1]]_vars

\* the records the claim expects after deleting the selected columns: per
\* data row, the surviving column ids mapped to the row's own cells
SurvivingRecords(rows, columns, selected) ==
    LET dataRows == FilterAt(rows, {i \in 1..Len(rows) : rows[i].rowId # "header"}, 1)
        kept == {columns[i].columnId : i \in 1..Len(columns)}
                   \ {selected[i] : i \in 1..Len(selected)}
    IN  [r \in 1..Len(dataRows) |->
            [f \in kept |-> Coerce(dataRows[r].cells[ColumnIndex(columns, f) + 1].text)]]

\* C4 as claimed. Column delete syncs the surviving fields under their own
\* keys: a Delete with columns selected (no rows selected, a dataset
\* present, the grid aligned) emits one dataset whose records hold exactly
\* the surviving column ids, each with the value of its own cell.
ColumnDeleteSyncsOwnKeys ==
    [][(/\ lastOp'.name = "delete"
        /\ Len(selectedColumns) > 0 /\ Len(selectedRows) = 0
        /\ originalData # Null /\ Aligned) =>
          /\ Len(emitted') = 1
          /\ emitted'[1].chart = SurvivingRecords(gridRows, gridColumns, selectedColumns)]_vars

\* C5 as claimed. Combined delete: a Delete with columns and data rows
\* selected, on an aligned grid, removes the selected columns from the columns and from every remaining
\* row, removes the selected rows, leaves the grid aligned and both
\* selections empty, and its last dataset reflects both removals.
CombinedDelete ==
    [][(/\ lastOp'.name = "delete"
        /\ Len(selectedColumns) > 0 /\ Len(selectedRows) > 0
        /\ ~Includes(selectedRows, "header")
        /\ Aligned) =>
          /\ gridColumns' = DeleteColumns(gridColumns, selectedColumns)
          /\ gridRows' = DeleteRows(DeleteCells(gridRows, gridColumns, selectedColumns),
                                    selectedRows)
          /\ \A r \in 1..Len(gridRows') : Len(gridRows'[r].cells) = Len(gridColumns')
          /\ selectedColumns' = <<>> /\ selectedRows' = <<>>
          /\ (originalData # Null =>
                /\ Len(emitted') >= 1
                /\ emitted'[Len(emitted')].chart
                     = SurvivingRecords(DeleteRows(gridRows, selectedRows),
                                        gridColumns, selectedColumns))]_vars

\* C6 as claimed. Firing policy: with a dataset present (and the header row
\* in place), an effective edit, undo, redo or delete has called
\* onDataChange, and a resize or a reorder has not.
FiringPolicy ==
    (originalData # Null /\ HeaderOnceAtZero) =>
        /\ (lastOp.name \in {"cellsChanged", "undo", "redo", "delete"} /\ lastOp.effective)
              => Len(emitted) >= 1
        /\ lastOp.name \in {"columnResize", "columnsReorder", "rowsReorder"}
              => emitted = <<>>

\* C7 as claimed. History reset on orientation toggle: the step that
\* re-projects the grid leaves the history empty and the cursor at -1.
TransposeResetsHistory ==
    [][lastOp'.name = "transpose" =>
          cellChanges' = <<>> /\ cellChangesIndex' = -1]_vars

\* the cell of a row that a change of the batch resolves to, if any
Targets(batch, row, c) ==
    {k \in 1..Len(batch) :
        /\ batch[k].rowId = row.rowId
        /\ ColumnIndex(gridColumns, batch[k].columnId) = c - 1}

\* C8. Silent partial replay: an undo (a redo) of a batch moves the cursor
\* by one, keeps the rows and their ids, writes the previous (the new) text
\* into every cell that a change of the batch resolves to by row id and
\* column id, and leaves every other cell as it was; changes that resolve to
\* nothing are skipped, and on an aligned grid the handler raises no error.
SilentPartialReplay ==
    [][/\ (lastOp'.name = "undo" /\ lastOp'.effective) =>
             LET batch == cellChanges[cellChangesIndex + 1]
             IN  /\ cellChangesIndex' = cellChangesIndex - 1
                 /\ (Aligned => ~lastOp'.threw)
                 /\ Len(gridRows') = Len(gridRows)
                 /\ \A r \in 1..Len(gridRows) :
                       /\ gridRows'[r].rowId = gridRows[r].rowId
                       /\ Len(gridRows'[r].cells) = Len(gridRows[r].cells)
                       /\ \A c \in 1..Len(gridRows[r].cells) :
                             IF Targets(batch, gridRows[r], c) # {}
                             THEN \E k \in Targets(batch, gridRows[r], c) :
                                     gridRows'[r].cells[c] =
                                        [gridRows[r].cells[c] EXCEPT
                                            !.text = batch[k].previousCell.text]
                             ELSE gridRows'[r].cells[c] = gridRows[r].cells[c]
       /\ (lastOp'.name = "redo" /\ lastOp'.effective) =>
             LET batch == cellChanges[cellChangesIndex + 2]
             IN  /\ cellChangesIndex' = cellChangesIndex + 1
                 /\ (Aligned => ~lastOp'.threw)
                 /\ Len(gridRows') = Len(gridRows)
                 /\ \A r \in 1..Len(gridRows) :
                       /\ gridRows'[r].rowId = gridRows[r].rowId
                       /\ Len(gridRows'[r].cells) = Len(gridRows[r].cells)
                       /\ \A c \in 1..Len(gridRows[r].cells) :
                             IF Targets(batch, gridRows[r], c) # {}
                             THEN \E k \in Targets(batch, gridRows[r], c) :
                                     gridRows'[r].cells[c] =
                                        [gridRows[r].cells[c] EXCEPT
                                            !.text = batch[k].newCell.text]
                             ELSE gridRows'[r].cells[c] = gridRows[r].cells[c]]_vars

\* C8 witness: an undo that skipped one change of its batch and applied another
SilentPartialReplayWitness ==
    /\ lastOp.name = "undo" /\ lastOp.effective /\ ~lastOp.threw
    /\ lastOp.skipped > 0 /\ lastOp.applied > 0

\* C9 as claimed. Header exclusion: a Delete leaves the header row in the
\* grid, once and at position 0, whatever ids the row selection holds.
DeleteKeepsHeader ==
    [][(lastOp'.name = "delete" /\ HeaderOnceAtZero) => HeaderOnceAtZero']_vars

\* a list of positions s, s+1, ..., in ascending order
IsRun(indexes) ==
    /\ Len(indexes) >= 1
    /\ \A i \in 1..Len(indexes) : indexes[i] = indexes[1] + i - 1

\* C10. Reorder no-op on self-target: moving a contiguous run of positions,
\* listed in ascending order, to the position the run starts at returns an
\* array equal to the input.
SelfTargetNoOp ==
    (Len(rResult) >= 1 /\ IsRun(rFrom0) /\ rTo = rFrom0[1]) => rResult[1] = rArray

\* C10 witness: a run of two or more positions inside an array of distinct
\* neighbours, moved to its own start
SelfTargetNoOpWitness ==
    /\ Len(rResult) >= 1
    /\ IsRun(rFrom0) /\ Len(rFrom0) >= 2 /\ rFrom0[1] >= 1
    /\ rTo = rFrom0[1]
    /\ rArray[rFrom0[1] + 1] # rArray[rFrom0[1] + 2]
    /\ rResult[1] = rArray

\* C11 as claimed. Sync round-trip: a dataset projected to the grid and
\* synced out with no edit in between gives, record for record and field
\* for field, the original value with its original kind.
SyncRoundTrip ==
    lastOp.name = "sync" =>
        /\ Len(emitted) = 1
        /\ Len(emitted[1].chart) = Len(tableData.rows)
        /\ \A r \in 1..Len(tableData.rows) :
              emitted[1].chart[r] = tableData.rows[r].vals

\* C12. History cursor bounds (I3): in every reachable state, whatever
\* edits, undos, redos, reorders, deletes and orientation toggles led to it,
\* -1 <= cursor < number of recorded batches.
CursorBounds ==
    /\ -1 <= cellChangesIndex
    /\ cellChangesIndex < Len(cellChanges)

\* C12 witness: a batch recorded, a structural operation after it, and the
\* batch undone: the cursor back at -1 under a history that is not empty
CursorBoundsWitness ==
    /\ lastOp.name = "undo" /\ lastOp.effective
    /\ Len(cellChanges) = 1 /\ cellChangesIndex = -1
    /\ ~snaps[1].clean

\* C13. Disabled undo and redo are no-ops: an undo with the cursor below 0
\* and a redo with the cursor on or after the last batch leave the rows, the
\* columns, the history, the cursor and both selections as they were and
\* call onDataChange not at all.
DisabledUndoRedoNoOp ==
    [][/\ (lastOp'.name = "undo" /\ cellChangesIndex < 0) =>
             /\ UNCHANGED <<gridRows, gridColumns, cellChanges, cellChangesIndex,
                            selectedRows, selectedColumns>>
             /\ emitted' = <<>>
       /\ (lastOp'.name = "redo" /\ cellChangesIndex >= Len(cellChanges) - 1) =>
             /\ UNCHANGED <<gridRows, gridColumns, cellChanges, cellChangesIndex,
                            selectedRows, selectedColumns>>
             /\ emitted' = <<>>]_vars

\* C13 witness: an undo refused with a batch in the history (already undone)
\* and a selection in place
DisabledUndoRedoNoOpWitness ==
    /\ lastOp.name = "undo" /\ ~lastOp.effective
    /\ Len(cellChanges) = 1 /\ cellChangesIndex = -1
    /\ Len(selectedRows) > 0 /\ Len(selectedColumns) > 0

\* C14. Sync content after value operations: the dataset an edit, an undo
\* or a redo hands to onDataChange has one record per row other than the
\* header, in grid order, mapping columns[i].id to the coercion of the text
\* of the row's cell i after the operation, and every other field of the
\* dataset is the original's.
SyncContent ==
    (lastOp.name \in {"cellsChanged", "undo", "redo"} /\ emitted # <<>>) =>
        LET dataRows == FilterAt(gridRows,
                                 {i \in 1..Len(gridRows) : gridRows[i].rowId # "header"}, 1)
            newData == emitted[1]
        IN  /\ Len(emitted) = 1
            /\ DOMAIN newData = DOMAIN originalData
            /\ \A k \in DOMAIN originalData \ {"chart"} : newData[k] = originalData[k]
            /\ Len(newData.chart) = Len(dataRows)
            /\ \A r \in 1..Len(dataRows) :
                  /\ DOMAIN newData.chart[r]
                       = {gridColumns[i].columnId : i \in 1..Len(dataRows[r].cells)}
                  /\ \A i \in 1..Len(dataRows[r].cells) :
                        newData.chart[r][gridColumns[i].columnId]
                          = Coerce(dataRows[r].cells[i].text)

\* C14 witness: row {x:1,y:2} with y edited to "5" emits {x:1,y:5} under the
\* dataset's other fields
SyncContentWitness ==
    /\ lastOp.name = "cellsChanged"
    /\ Len(emitted) = 1
    /\ emitted[1].meta = "chart-meta"
    /\ Len(emitted[1].chart) = 2
    /\ emitted[1].chart[1] = [x |-> Num(1), y |-> Num(5)]

\* a and b hold the same elements, each as often
SameElements(a, b) ==
    /\ Len(a) = Len(b)
    /\ \A i \in 1..Len(a) :
          Cardinality({j \in 1..Len(a) : a[j] = a[i]})
            = Cardinality({j \in 1..Len(b) : b[j] = a[i]})

\* C15 as claimed. Unresolved ids in reorder are filtered by the callers:
\* a column or row reorder whose target id or one of whose moving ids is
\* not in the grid loses, duplicates and inserts nothing: the columns, the
\* rows (by id) and the cells of every row are the elements they were, and
\* every row keeps one cell per column.
UnresolvedIdsFiltered ==
    [][(/\ lastOp'.name \in {"columnsReorder", "rowsReorder"}
        /\ lastOp'.skipped > 0
        /\ Aligned) =>
          /\ SameElements(gridColumns, gridColumns')
          /\ Len(gridRows') = Len(gridRows)
          /\ \A r \in 1..Len(gridRows') : gridRows'[r] # Undefined
          /\ SameElements([r \in 1..Len(gridRows) |-> gridRows[r].rowId],
                          [r \in 1..Len(gridRows') |-> gridRows'[r].rowId])
          /\ \A r \in 1..Len(gridRows), q \in 1..Len(gridRows') :
                gridRows'[q].rowId = gridRows[r].rowId =>
                    /\ SameElements(gridRows[r].cells, gridRows'[q].cells)
                    /\ Len(gridRows'[q].cells) = Len(gridColumns')]_vars

\* C16. reorderArray against a reference: for distinct valid source indexes
\* in any order and a target index in 0..len-k, or equal to len, the result
\* is the array without the source positions, with the moved items
\* inserted as one block at the target index of that shorter array (at its
\* end for a target of len), in the order the index list names them; it is
\* a permutation of the input of the same length.
ReorderReference ==
    (/\ Len(rResult) >= 1
     /\ (rTo <= Len(rArray) - Len(rFrom0) \/ rTo = Len(rArray))) =>
        LET remaining == FilterAt(rArray,
                                  (1..Len(rArray)) \ {rFrom0[k] + 1 : k \in 1..Len(rFrom0)}, 1)
            moved == [k \in 1..Len(rFrom0) |-> rArray[rFrom0[k] + 1]]
            at == IF rTo = Len(rArray) THEN Len(remaining) ELSE rTo
        IN  /\ rResult[1] = SubSeq(remaining, 1, at) \o moved
                               \o SubSeq(remaining, at + 1, Len(remaining))
            /\ Len(rResult[1]) = Len(rArray)
            /\ SameElements(rArray, rResult[1])

\* C16 witness: two different items, listed against their order in the
\* array, moved into the middle of what is left
ReorderReferenceWitness ==
    /\ Len(rResult) >= 1
    /\ Len(rFrom0) = 2 /\ rFrom0[1] > rFrom0[2]
    /\ rArray[rFrom0[1] + 1] # rArray[rFrom0[2] + 1]
    /\ rTo = 1 /\ Len(rArray) = 4
    /\ rResult[1][2] = rArray[rFrom0[1] + 1]
    /\ rResult[1][3] = rArray[rFrom0[2] + 1]
    /\ rResult[1] # rArray

\* C17 as claimed. reorderArray is pure: after a call the caller's index
\* list holds the elements it held, in the same order, and a second call
\* with the same array, the same index list and the same target returns
\* what the first returned.
ReorderPure ==
    /\ (Len(rResult) >= 1 => rFrom = rFrom0)
    /\ (Len(rResult) >= 2 => rResult[2] = rResult[1])

\* C18. Row reorder frame: a row reorder (target a row of the grid, moving
\* ids distinct data rows) leaves the header row at position 0 and the
\* other rows a permutation of the data rows before it, each with its id
\* and its cells; the columns, the history, the cursor and both selections
\* are unchanged and onDataChange is not called.
RowsReorderFrame ==
    [][(lastOp'.name = "rowsReorder" /\ HeaderOnceAtZero) =>
          /\ gridRows'[1] = gridRows[1]
          /\ SameElements(Tail(gridRows), Tail(gridRows'))
          /\ UNCHANGED <<gridColumns, cellChanges, cellChangesIndex,
                         selectedRows, selectedColumns>>
          /\ emitted' = <<>>]_vars

\* C18 witness: row-1 moved above row-0 under the header, with a batch in
\* the history
RowsReorderFrameWitness ==
    /\ lastOp.name = "rowsReorder"
    /\ Len(gridRows) = 3
    /\ gridRows[1].rowId = "header"
    /\ gridRows[2].rowId = "row-1" /\ gridRows[3].rowId = "row-0"
    /\ Len(cellChanges) = 1 /\ cellChangesIndex = 0

\* C19. Delete with both selections empty is a no-op: the columns, the
\* rows, the history, the cursor and the selections are unchanged and
\* onDataChange is not called.
EmptyDeleteNoOp ==
    [][(lastOp'.name = "delete" /\ selectedRows = <<>> /\ selectedColumns = <<>>) =>
          /\ UNCHANGED <<gridColumns, gridRows, cellChanges, cellChangesIndex,
                         selectedRows, selectedColumns>>
          /\ emitted' = <<>>]_vars

\* C19 witness: a Delete with nothing selected, a dataset present and a
\* batch in the history
EmptyDeleteNoOpWitness ==
    /\ lastOp.name = "delete" /\ ~lastOp.effective
    /\ selectedRows = <<>> /\ selectedColumns = <<>>
    /\ originalData # Null
    /\ Len(cellChanges) = 1 /\ cellChangesIndex = 0

\* the changes of a batch that resolve to the cell at row r, position c
ResolvingTo(batch, r, c) ==
    {k \in 1..Len(batch) :
        /\ RowIndex(gridRows, batch[k].rowId) = r - 1
        /\ ColumnIndex(gridColumns, batch[k].columnId) = c - 1}

\* C20. Undo resolves cells by id at replay time: whatever reorders of rows
\* or columns came after the edit of the cell (row id r, column id c), the
\* undo writes the text that cell had before the edit into the cell of row
\* r at the position column c has now, and leaves every other cell as it
\* was; the positions at the time of the edit play no part.
ReplayById ==
    [][(lastOp'.name = "undo" /\ lastOp'.effective) =>
          LET batch == cellChanges[cellChangesIndex + 1]
              snap == snaps[cellChangesIndex + 1]
          IN  /\ Len(gridRows') = Len(gridRows)
              /\ \A r \in 1..Len(gridRows) :
                    /\ gridRows'[r].rowId = gridRows[r].rowId
                    /\ Len(gridRows'[r].cells) = Len(gridRows[r].cells)
                    /\ \A c \in 1..Len(gridRows[r].cells) :
                          IF ResolvingTo(batch, r, c) = {}
                          THEN gridRows'[r].cells[c] = gridRows[r].cells[c]
                          ELSE \E k \in ResolvingTo(batch, r, c) :
                                  gridRows'[r].cells[c].text =
                                      snap.pre[RowIndex(snap.pre, batch[k].rowId) + 1]
                                          .cells[ColumnIndex(snap.columns, batch[k].columnId) + 1]
                                          .text]_vars

\* C20 witness: an undo that restored a cell whose row and whose column
\* both stand elsewhere than at the time of the edit
ReplayByIdWitness ==
    /\ lastOp.name = "undo" /\ lastOp.effective /\ lastOp.applied > 0
    /\ HeaderOnceAtZero /\ Aligned
    /\ \E k \in 1..Len(cellChanges[1]) :
          LET change == cellChanges[1][k]
              rowThen == RowIndex(snaps[1].pre, change.rowId)
              rowNow == RowIndex(gridRows, change.rowId)
              cellThen == ColumnIndex(snaps[1].columns, change.columnId)
              cellNow == ColumnIndex(gridColumns, change.columnId)
          IN  /\ rowNow # -1 /\ cellNow # -1
              /\ rowNow # rowThen /\ cellNow # cellThen
              /\ gridRows[rowNow + 1].cells[cellNow + 1].text
                   = snaps[1].pre[rowThen + 1].cells[cellThen + 1].text
              /\ change.newCell.text # change.previousCell.text

====
